---- MODULE Spec2Model ----
(***************************************************************************)
(* InvoiceGenerator: the invoice data/calculation model of                 *)
(* src/InvoiceGenerator/api.py (Address, Item, Invoice) as a state         *)
(* machine, with the writes that SimpleInvoice.gen of                      *)
(* src/InvoiceGenerator/pdf.py makes to the invoice it renders.            *)
(*                                                                         *)
(* A decimal.Decimal is the record [c, e] standing for c * 10^e (signed    *)
(* coefficient, exponent), with the exponent rules of the decimal module   *)
(* (product: sum of exponents; sum: least exponent; quotient: exact,       *)
(* zeros stripped up to the ideal exponent).  Arguments are ints, strings  *)
(* of short decimal literals and None, so that all values stay far below   *)
(* the 28 significant digits of the default context, where the decimal     *)
(* module computes exactly; operands with more digits (a binary float      *)
(* given as a price, say) are not modelled.  A negative zero is not told   *)
(* from zero.                                                              *)
(***************************************************************************)
EXTENDS Integers, Sequences, FiniteSets, TLC

\* one invoice: its item list and its attributes as read through the instance,
\* and the lines printed so far
VARIABLES items, rounding_result, rounding_strategy, kind, mode, stdout
\* number and date of that invoice
VARIABLES number, date
\* the exception the last call ended with, NoException when it returned
VARIABLES raised
\* the Address objects (Client, Provider) constructed so far
VARIABLES parties
\* the attributes of the class Invoice, and the __dict__ of a second instance
VARIABLES cls, other

vars ==
  <<items, rounding_result, rounding_strategy, kind, mode, stdout,
    number, date, raised, parties, cls, other>>

(***************************************************************************)
(* Bounds                                                                  *)
(***************************************************************************)
MaxItems == 3
MaxOut == 2
\* PDF files found in the output directory
MaxPdfs == 2

(***************************************************************************)
(* Python values handed to constructors and setters                        *)
(***************************************************************************)
IntVal(n) == [type |-> "int", c |-> n, e |-> 0]
\* the string holding the decimal literal c * 10^e, e.g. "2.5" = StrVal(25, -1)
StrVal(c, e) == [type |-> "str", c |-> c, e |-> e]
NoneVal == [type |-> "none", c |-> 0, e |-> 0]

\* a str that is not read as a number (a name, a unit, the empty string),
\* and None where such a str is expected
Text(s) == [type |-> "str", text |-> s]
NoText == [type |-> "none", text |-> ""]

\* bool(value): 0, None and "" are falsy, a non-empty string is truthy
\* ("0" too)
Truthy(value) ==
  CASE value.type = "int" -> value.c # 0
    [] value.type = "str" ->
         IF "text" \in DOMAIN value THEN value.text # "" ELSE TRUE
    [] value.type = "none" -> FALSE

\* Decimal(value)
ToDecimal(value) == [c |-> value.c, e |-> value.e]

(***************************************************************************)
(* decimal arithmetic                                                      *)
(***************************************************************************)
Dec(c, e) == [c |-> c, e |-> e]
Dec0 == Dec(0, 0)

RECURSIVE Pow10(_)
Pow10(n) == IF n <= 0 THEN 1 ELSE 10 * Pow10(n - 1)

Min(a, b) == IF a <= b THEN a ELSE b
Abs(n) == IF n < 0 THEN -n ELSE n

\* the coefficient of d written at the exponent e <= d.e
Scaled(d, e) == d.c * Pow10(d.e - e)

\* a == b of two Decimals (also the key equality of a dict of Decimals)
DecEq(a, b) == Scaled(a, Min(a.e, b.e)) = Scaled(b, Min(a.e, b.e))

DecMul(a, b) == Dec(a.c * b.c, a.e + b.e)

\* (a slip: the sum is cut to a context of three significant digits)
RECURSIVE Shorten(_)
Shorten(d) ==
  IF Abs(d.c) >= 1000
  THEN Shorten(Dec((IF d.c < 0 THEN -1 ELSE 1) * (Abs(d.c) \div 10), d.e + 1))
  ELSE d
DecAddShortContext(a, b) ==
  LET e == Min(a.e, b.e) IN Shorten(Dec(Scaled(a, e) + Scaled(b, e), e))
DecAdd(a, b) ==
  LET e == Min(a.e, b.e) IN Dec(Scaled(a, e) + Scaled(b, e), e)

DecSub(a, b) ==
  LET e == Min(a.e, b.e) IN Dec(Scaled(a, e) - Scaled(b, e), e)

\* a / Decimal(100): exact, trailing zeros dropped while below a's exponent
RECURSIVE Strip(_, _)
Strip(d, ideal) ==
  IF d.e < ideal /\ d.c % 10 = 0 THEN Strip(Dec(d.c \div 10, d.e + 1), ideal)
  ELSE d
DecDiv100(a) == IF a.c = 0 THEN Dec(0, a.e) ELSE Strip(Dec(a.c, a.e - 2), a.e)

(***************************************************************************)
(* Outcome of a call: a Decimal, or the AttributeError of reading an       *)
(* attribute that was never stored                                         *)
(***************************************************************************)
Ok(v) == [ok |-> TRUE, v |-> v]
AttributeError == [ok |-> FALSE, v |-> Dec0]

ResAdd(a, b) == IF a.ok /\ b.ok THEN Ok(DecAdd(a.v, b.v)) ELSE AttributeError
ResSub(a, b) == IF a.ok /\ b.ok THEN Ok(DecSub(a.v, b.v)) ELSE AttributeError

(***************************************************************************)
(* Item                                                                    *)
(***************************************************************************)
\* an Item object before __init__ stored anything
NoAttr == Dec0
NewObject ==
  [has_count |-> FALSE, _count |-> NoAttr,
   has_price |-> FALSE, _price |-> NoAttr,
   has_unit |-> FALSE, _unit |-> Text(""), _tax |-> Dec0]

\* as count_setter, but only None and "" are taken as "no value": 0 is stored
count_setterStoresZero(item, value) ==
  IF Truthy(value) \/ value.type = "int"
  THEN [item EXCEPT !.has_count = TRUE, !._count = ToDecimal(value)]
  ELSE item

count_setter(item, value) ==
  IF Truthy(value)
  THEN [item EXCEPT !.has_count = TRUE, !._count = ToDecimal(value)]
  ELSE item

price_setter(item, value) ==
  IF Truthy(value)
  THEN [item EXCEPT !.has_price = TRUE, !._price = ToDecimal(value)]
  ELSE item

unit_setter(item, value) ==
  IF Truthy(value)
  THEN [item EXCEPT !.has_unit = TRUE, !._unit = value]
  ELSE item

tax_setter(item, value) ==
  IF value.type = "none" THEN [item EXCEPT !._tax = Dec0]
  ELSE [item EXCEPT !._tax = ToDecimal(value)]

\* Item.__init__(count, price, unit=..., tax=...)
Item__init__(count, price, unit, tax) ==
  tax_setter(
    unit_setter(price_setter(count_setter(NewObject, count), price), unit),
    tax)

\* Item(count, price, tax=...): the unit is the default ""
Item(count, price, tax) == Item__init__(count, price, Text(""), tax)

\* Item.total: self.price * self.count
total(item) ==
  IF item.has_price /\ item.has_count
  THEN Ok(DecMul(item._price, item._count))
  ELSE AttributeError

\* Item.total_tax:
\*   self.price * self.count * (Decimal(1) + self.tax / Decimal(100))
\* (a slip: the factor is the rate alone)
total_taxRateOnly(item) ==
  IF item.has_price /\ item.has_count
  THEN Ok(DecMul(DecMul(item._price, item._count), DecDiv100(item._tax)))
  ELSE AttributeError
total_tax(item) ==
  IF item.has_price /\ item.has_count
  THEN Ok(DecMul(DecMul(item._price, item._count),
                 DecAdd(Dec(1, 0), DecDiv100(item._tax))))
  ELSE AttributeError

\* (a slip: the operands of the difference exchanged)
count_taxSwapped(item) == ResSub(total(item), total_tax(item))
\* Item.count_tax()
count_tax(item) == ResSub(total_tax(item), total(item))

(***************************************************************************)
(* Invoice: derived values, as functions of the item list and the          *)
(* rounding attributes                                                     *)
(***************************************************************************)
ROUND_DOWN == "ROUND_DOWN"
ROUND_HALF_UP == "ROUND_HALF_UP"
ROUND_HALF_EVEN == "ROUND_HALF_EVEN"
ROUND_CEILING == "ROUND_CEILING"
ROUND_FLOOR == "ROUND_FLOOR"
ROUND_UP == "ROUND_UP"
ROUND_HALF_DOWN == "ROUND_HALF_DOWN"
ROUND_05UP == "ROUND_05UP"

\* the rounding modes of the decimal module
RoundingModes ==
  {ROUND_DOWN, ROUND_HALF_UP, ROUND_HALF_EVEN, ROUND_CEILING, ROUND_FLOOR,
   ROUND_UP, ROUND_HALF_DOWN, ROUND_05UP}

\* (a slip: a tie under ROUND_HALF_EVEN always goes away from zero)
RoundsAwayTiesUp(strategy, negative, q, r, m) ==
  CASE strategy = ROUND_DOWN -> FALSE
    [] strategy = ROUND_UP -> r # 0
    [] strategy = ROUND_HALF_UP -> 2 * r >= m
    [] strategy = ROUND_HALF_DOWN -> 2 * r > m
    [] strategy = ROUND_HALF_EVEN -> 2 * r >= m
    [] strategy = ROUND_CEILING -> r # 0 /\ ~negative
    [] strategy = ROUND_FLOOR -> r # 0 /\ negative
    [] strategy = ROUND_05UP -> r # 0 /\ q % 5 = 0
\* does the mode add one to the magnitude q, given the dropped part r of m
RoundsAway(strategy, negative, q, r, m) ==
  CASE strategy = ROUND_DOWN -> FALSE
    [] strategy = ROUND_UP -> r # 0
    [] strategy = ROUND_HALF_UP -> 2 * r >= m
    [] strategy = ROUND_HALF_DOWN -> 2 * r > m
    [] strategy = ROUND_HALF_EVEN -> 2 * r > m \/ (2 * r = m /\ q % 2 = 1)
    [] strategy = ROUND_CEILING -> r # 0 /\ ~negative
    [] strategy = ROUND_FLOOR -> r # 0 /\ negative
    [] strategy = ROUND_05UP -> r # 0 /\ q % 5 = 0

\* Decimal(price).quantize(0, rounding=strategy)
quantize(d, strategy) ==
  IF d.e >= 0 THEN Dec(d.c * Pow10(d.e), 0)
  ELSE LET m == Pow10(-d.e)
           q == Abs(d.c) \div m
           r == Abs(d.c) % m
           mag == IF RoundsAway(strategy, d.c < 0, q, r, m) THEN q + 1 ELSE q
       IN Dec(IF d.c < 0 THEN -mag ELSE mag, 0)

\* sum(...): the left fold from 0
RECURSIVE sumFrom(_, _, _)
sumFrom(acc, rs, i) ==
  IF i > Len(rs) THEN acc ELSE sumFrom(ResAdd(acc, rs[i]), rs, i + 1)
sum(rs) == sumFrom(Ok(Dec0), rs, 1)

\* Invoice._round_price under the strategy rs
_round_price(rs, p) == IF p.ok THEN Ok(quantize(p.v, rs)) ELSE p

\* (a slip: the toggle is not looked at)
_round_resultNever(rr, rs, p) == p
\* Invoice._round_result under the toggle rr and the strategy rs
_round_result(rr, rs, p) == IF rr THEN _round_price(rs, p) ELSE p

_price_tax_unrounded(its) ==
  sum([i \in 1..Len(its) |-> total_tax(its[i])])

price(its, rr, rs) ==
  _round_result(rr, rs, sum([i \in 1..Len(its) |-> total(its[i])]))

price_tax(its, rr, rs) ==
  _round_result(rr, rs, _price_tax_unrounded(its))

\* (a slip: the price without tax is the one rounded)
difference_in_roundingOfPrice(its, rs) ==
  ResSub(_round_price(rs, sum([i \in 1..Len(its) |-> total(its[i])])),
         _price_tax_unrounded(its))
\* (a slip: real price minus rounded price)
difference_in_roundingNegated(its, rs) ==
  ResSub(_price_tax_unrounded(its),
         _round_price(rs, _price_tax_unrounded(its)))
difference_in_rounding(its, rs) ==
  ResSub(_round_price(rs, _price_tax_unrounded(its)),
         _price_tax_unrounded(its))

\* the OrderedDict of _get_grouped_items_by_tax as the sequence of its
\* entries in insertion order; ok is FALSE when an item's total raised
\* (a slip: the first item's total entered as its total with tax)
NewRowTotalTwice(item) ==
  [key |-> item._tax, total |-> total(item).v,
   total_tax |-> total(item).v, tax |-> count_tax(item).v]
NewRow(item) ==
  [key |-> item._tax, total |-> total(item).v,
   total_tax |-> total_tax(item).v, tax |-> count_tax(item).v]

\* (a slip: = in place of += for the total)
AddToRowOverwrites(row, item) ==
  [row EXCEPT !.total = total(item).v,
              !.total_tax = DecAdd(@, total_tax(item).v),
              !.tax = DecAdd(@, count_tax(item).v)]
AddToRow(row, item) ==
  [row EXCEPT !.total = DecAdd(@, total(item).v),
              !.total_tax = DecAdd(@, total_tax(item).v),
              !.tax = DecAdd(@, count_tax(item).v)]

\* (a slip: keys compared digit for digit, 21 and 21.0 apart)
FoundSameDigits(table, key) == {j \in 1..Len(table) : table[j].key = key}
\* item.tax in table: the positions of the entry with an equal key
Found(table, key) == {j \in 1..Len(table) : DecEq(table[j].key, key)}

RECURSIVE groupFrom(_, _, _)
groupFrom(table, its, i) ==
  IF i > Len(its) THEN [ok |-> TRUE, rows |-> table]
  ELSE LET item == its[i]
           found == Found(table, item._tax)
       IN IF ~total(item).ok THEN [ok |-> FALSE, rows |-> <<>>]
          ELSE IF found = {}
               THEN groupFrom(Append(table, NewRow(item)), its, i + 1)
               ELSE LET j == CHOOSE j \in found : TRUE
                    IN groupFrom([table EXCEPT ![j] = AddToRow(@, item)],
                                 its, i + 1)

_get_grouped_items_by_tax(its) == groupFrom(<<>>, its, 1)

\* rows (vat, total, total_tax, tax) in the order of the OrderedDict
generate_breakdown_vat_table(its) ==
  LET t == _get_grouped_items_by_tax(its)
  IN [ok |-> t.ok,
      rows |-> [j \in 1..Len(t.rows) |->
                  <<t.rows[j].key, t.rows[j].total,
                    t.rows[j].total_tax, t.rows[j].tax>>]]

(***************************************************************************)
(* The invoice as a state machine                                          *)
(***************************************************************************)
\* constructor arguments (count, price, tax) of the items added
ItemArgs ==
  { <<IntVal(1), StrVal(10050, -2), NoneVal>>,
    <<IntVal(3), IntVal(5), IntVal(21)>>,
    <<IntVal(1), StrVal(25, -1), StrVal(210, -1)>>,
    <<StrVal(-15, -1), IntVal(1), IntVal(0)>>,
    <<IntVal(0), IntVal(5), IntVal(21)>>,
    <<IntVal(2), IntVal(0), NoneVal>>,
    <<IntVal(1), IntVal(1), IntVal(10)>>,
    <<IntVal(1), StrVal(5, -1), NoneVal>> }

KindArgs == {"facture", "devis", "bogus"}
ModeArgs == {IntVal(1), IntVal(2), IntVal(3), StrVal(1, 0), StrVal(2, 0)}

\* f"{value}" of an int or of a string of digits
Format(value) ==
  CASE value.c = 1 -> "1"
    [] value.c = 2 -> "2"
    [] value.c = 3 -> "3"

NoException == "NoException"

\* the attributes defined in the body of class Invoice
InvoiceClass ==
  [kind |-> "facture", mode |-> IntVal(1), number |-> NoneVal,
   date |-> "None", rounding_result |-> FALSE,
   rounding_strategy |-> ROUND_HALF_EVEN]

\* Address.__init__(summary, ..., bank_account, bank_code): every argument
\* is stored as given
Address(summary, bank_account, bank_code) ==
  [summary |-> summary, bank_account |-> bank_account,
   bank_code |-> bank_code]

\* the __dict__ of an Invoice after __init__: the attributes stored on the
\* instance itself (client, provider and creator left out)
Invoice__init__ == [_items |-> <<>>]

\* instance.name: the instance's own attribute, else the attribute of the class
Getattr(instance, class, name) ==
  IF name \in DOMAIN instance THEN instance[name] ELSE class[name]

\* instance.name = value: UnicodeProperty.__setattr__ stores the value in the
\* instance's own __dict__
Setattr(instance, name, value) ==
  [n \in DOMAIN instance \cup {name} |->
     IF n = name THEN value ELSE instance[n]]

\* Invoice(client, provider, creator): the class-level defaults
Init ==
  /\ items = <<>>
  /\ rounding_result = InvoiceClass.rounding_result
  /\ rounding_strategy = InvoiceClass.rounding_strategy
  /\ kind = InvoiceClass.kind
  /\ mode = InvoiceClass.mode
  /\ stdout = <<>>
  /\ number = InvoiceClass.number
  /\ date = InvoiceClass.date
  /\ raised = NoException
  /\ parties = {Address(Text("Ets"), Text(""), Text("")),
                Address(Text("Thibault Arnoul"), Text("FR76 4061"), Text(""))}
  /\ cls = InvoiceClass
  /\ other = Invoice__init__

\* isinstance(value, Item): items are the records built by Item(...)
isinstance_Item(value) == "has_count" \in DOMAIN value

\* as add_item, but the new item goes to the head of the list
add_itemPrepends(item) ==
  /\ IF isinstance_Item(item)
     THEN /\ Len(items) < MaxItems
          /\ items' = <<item>> \o items
          /\ raised' = NoException
     ELSE /\ items' = items
          /\ raised' = "AssertionError"
  /\ UNCHANGED <<rounding_result, rounding_strategy, kind, mode, stdout>>
  /\ UNCHANGED <<number, date, parties, cls, other>>

\* as add_item, without the assert: whatever is passed is appended
add_itemUnchecked(item) ==
  /\ Len(items) < MaxItems
  /\ items' = Append(items, item)
  /\ raised' = NoException
  /\ UNCHANGED <<rounding_result, rounding_strategy, kind, mode, stdout>>
  /\ UNCHANGED <<number, date, parties, cls, other>>

\* `assert isinstance(item, Item)`, then the append to the instance's list
\* (the list kept is at most MaxItems long)
add_item(item) ==
  /\ IF isinstance_Item(item)
     THEN /\ Len(items) < MaxItems
          /\ items' = Append(items, item)
          /\ raised' = NoException
     ELSE /\ items' = items
          /\ raised' = "AssertionError"
  /\ UNCHANGED <<rounding_result, rounding_strategy, kind, mode, stdout>>
  /\ UNCHANGED <<number, date, parties, cls, other>>

\* invoice.rounding_result = value
setattr_rounding_result(value) ==
  /\ rounding_result' = value
  /\ UNCHANGED <<items, rounding_strategy, kind, mode, stdout>>
  /\ raised' = NoException
  /\ UNCHANGED <<number, date, parties, cls, other>>

\* invoice.rounding_strategy = value
setattr_rounding_strategy(value) ==
  /\ rounding_strategy' = value
  /\ UNCHANGED <<items, rounding_result, kind, mode, stdout>>
  /\ raised' = NoException
  /\ UNCHANGED <<number, date, parties, cls, other>>

\* as setattr_kind, but the value is stored on the class
setattr_kindOnClass(value) ==
  /\ kind' = value
  /\ cls' = [cls EXCEPT !.kind = value]
  /\ UNCHANGED <<items, rounding_result, rounding_strategy, mode, stdout>>
  /\ raised' = NoException
  /\ UNCHANGED <<number, date, parties, other>>

\* invoice.kind = value
setattr_kind(value) ==
  /\ kind' = value
  /\ UNCHANGED <<items, rounding_result, rounding_strategy, mode, stdout>>
  /\ raised' = NoException
  /\ UNCHANGED <<number, date, parties, cls, other>>

\* as setattr_mode, but the assignment also switches the rounding on
setattr_modeSetsRounding(value) ==
  /\ mode' = value
  /\ rounding_result' = TRUE
  /\ UNCHANGED <<items, rounding_strategy, kind, stdout>>
  /\ raised' = NoException
  /\ UNCHANGED <<number, date, parties, cls, other>>

\* invoice.mode = value
setattr_mode(value) ==
  /\ mode' = value
  /\ UNCHANGED <<items, rounding_result, rounding_strategy, kind, stdout>>
  /\ raised' = NoException
  /\ UNCHANGED <<number, date, parties, cls, other>>

\* as set_kind, but an invalid value leaves the kind as it was
set_kindKeepsPrevious(value) ==
  /\ IF value \in {"facture", "devis"}
     THEN kind' = value /\ stdout' = stdout
     ELSE /\ Len(stdout) < MaxOut
          /\ stdout' = Append(stdout, <<"wrong kind", value>>)
          /\ kind' = kind
  /\ UNCHANGED <<items, rounding_result, rounding_strategy, mode>>
  /\ raised' = NoException
  /\ UNCHANGED <<number, date, parties, cls, other>>

\* (the output kept is at most MaxOut lines long)
set_kind(value) ==
  /\ IF value \in {"facture", "devis"}
     THEN kind' = value /\ stdout' = stdout
     ELSE /\ Len(stdout) < MaxOut
          /\ stdout' = Append(stdout, <<"wrong kind", value>>)
          /\ kind' = "facture"
  /\ UNCHANGED <<items, rounding_result, rounding_strategy, mode>>
  /\ raised' = NoException
  /\ UNCHANGED <<number, date, parties, cls, other>>

\* as set_mode, but a string of digits is read as the number it spells
set_modeParsesDigits(value) ==
  /\ IF IntVal(value.c) \in {IntVal(1), IntVal(2)}
     THEN mode' = IntVal(value.c) /\ stdout' = stdout
     ELSE /\ Len(stdout) < MaxOut
          /\ stdout' = Append(stdout, <<"wrong mode", Format(value)>>)
          /\ mode' = IntVal(1)
  /\ UNCHANGED <<items, rounding_result, rounding_strategy, kind>>
  /\ raised' = NoException
  /\ UNCHANGED <<number, date, parties, cls, other>>

set_mode(value) ==
  /\ IF value \in {IntVal(1), IntVal(2)}
     THEN mode' = value /\ stdout' = stdout
     ELSE /\ Len(stdout) < MaxOut
          /\ stdout' = Append(stdout, <<"wrong mode", Format(value)>>)
          /\ mode' = IntVal(1)
  /\ UNCHANGED <<items, rounding_result, rounding_strategy, kind>>
  /\ raised' = NoException
  /\ UNCHANGED <<number, date, parties, cls, other>>

AddItem == \E a \in ItemArgs : add_item(Item(a[1], a[2], a[3]))
SetRoundingResult == \E b \in BOOLEAN : setattr_rounding_result(b)
SetRoundingStrategy == \E s \in RoundingModes : setattr_rounding_strategy(s)
SetKind == \E k \in KindArgs : set_kind(k)
SetMode == \E m \in ModeArgs : set_mode(m)
AssignKind == \E k \in KindArgs : setattr_kind(k)
AssignMode == \E m \in ModeArgs : setattr_mode(m)

\* items and rounding attributes of one invoice
Next == AddItem \/ SetRoundingResult \/ SetRoundingStrategy
Spec == Init /\ [][Next]_vars

\* kind and mode of one invoice
NextAttrs == SetKind \/ SetMode \/ AssignKind \/ AssignMode
SpecAttrs == Init /\ [][NextAttrs]_vars

\* Client(summary, bank_account=..., bank_code=...), Provider(...)
Address__init__(summary, bank_account, bank_code) ==
  /\ parties' = parties \cup {Address(summary, bank_account, bank_code)}
  /\ raised' = NoException
  /\ UNCHANGED <<items, rounding_result, rounding_strategy, kind, mode, stdout>>
  /\ UNCHANGED <<number, date, cls, other>>

\* Client(): the call lacks the positional argument summary, no object is made
Address__init__NoSummary ==
  /\ raised' = "TypeError"
  /\ UNCHANGED <<items, rounding_result, rounding_strategy, kind, mode, stdout>>
  /\ UNCHANGED <<number, date, parties, cls, other>>

\* names as the YAML files of the CLI give them: a name, an empty string and
\* an empty entry (None)
SummaryArgs == {Text("Ets"), Text(""), NoText}
BankAccountArgs == {Text(""), Text("FR76 4061")}
BankCodeArgs == {Text(""), Text("0800")}

NewParty ==
  \E summary \in SummaryArgs, bank_account \in BankAccountArgs,
     bank_code \in BankCodeArgs :
    Address__init__(summary, bank_account, bank_code)
NewPartyNoSummary == Address__init__NoSummary

\* construction of clients and providers
NextParties == NewParty \/ NewPartyNoSummary
SpecParties == Init /\ [][NextParties]_vars

\* a few arguments of each operation, for the specifications that combine
\* all the operations of an invoice
FewItemArgs ==
  { <<IntVal(1), StrVal(10050, -2), NoneVal>>,
    <<IntVal(3), IntVal(5), IntVal(21)>> }
NonItemArgs == {NoneVal, StrVal(5, 0)}
FewStrategies == {ROUND_HALF_EVEN, ROUND_UP}
FewKindArgs == {"devis", "bogus"}
FewModeArgs == {IntVal(2), StrVal(1, 0)}

\* a second invoice: as constructed, after other.add_item(...), and after
\* assignments to its attributes
OtherInvoices ==
  { Invoice__init__,
    [Invoice__init__ EXCEPT
       !._items = <<Item(IntVal(1), StrVal(10050, -2), NoneVal)>>],
    Setattr(Setattr(Invoice__init__, "kind", "devis"),
            "rounding_result", TRUE) }

InitInvoices ==
  /\ items = <<>>
  /\ rounding_result = InvoiceClass.rounding_result
  /\ rounding_strategy = InvoiceClass.rounding_strategy
  /\ kind = InvoiceClass.kind
  /\ mode = InvoiceClass.mode
  /\ stdout = <<>>
  /\ number = InvoiceClass.number
  /\ date = InvoiceClass.date
  /\ raised = NoException
  /\ parties = {Address(Text("Ets"), Text(""), Text("")),
                Address(Text("Thibault Arnoul"), Text("FR76 4061"), Text(""))}
  /\ cls = InvoiceClass
  /\ other \in OtherInvoices

AddFewItems == \E a \in FewItemArgs : add_item(Item(a[1], a[2], a[3]))
AddNonItem == \E x \in NonItemArgs : add_item(x)
SetFewStrategies == \E s \in FewStrategies : setattr_rounding_strategy(s)
SetFewKinds == \E k \in FewKindArgs : set_kind(k)
SetFewModes == \E m \in FewModeArgs : set_mode(m)
AssignFewKinds == \E k \in FewKindArgs : setattr_kind(k)
AssignFewModes == \E m \in FewModeArgs : setattr_mode(m)

\* every operation on one invoice, next to a second invoice
NextInvoices ==
  \/ AddFewItems
  \/ AddNonItem
  \/ SetRoundingResult
  \/ SetFewStrategies
  \/ SetFewKinds
  \/ SetFewModes
  \/ AssignFewKinds
  \/ AssignFewModes
SpecInvoices == InitInvoices /\ [][NextInvoices]_vars

\* invoice.items[i].count = value
setattr_item_count(i, value) ==
  /\ i \in 1..Len(items)
  /\ items' = [items EXCEPT ![i] = count_setter(@, value)]
  /\ raised' = NoException
  /\ UNCHANGED <<rounding_result, rounding_strategy, kind, mode, stdout>>
  /\ UNCHANGED <<number, date, parties, cls, other>>

\* invoice.items[i].price = value
setattr_item_price(i, value) ==
  /\ i \in 1..Len(items)
  /\ items' = [items EXCEPT ![i] = price_setter(@, value)]
  /\ raised' = NoException
  /\ UNCHANGED <<rounding_result, rounding_strategy, kind, mode, stdout>>
  /\ UNCHANGED <<number, date, parties, cls, other>>

\* invoice.items[i].unit = value
setattr_item_unit(i, value) ==
  /\ i \in 1..Len(items)
  /\ items' = [items EXCEPT ![i] = unit_setter(@, value)]
  /\ raised' = NoException
  /\ UNCHANGED <<rounding_result, rounding_strategy, kind, mode, stdout>>
  /\ UNCHANGED <<number, date, parties, cls, other>>

\* items that are edited after construction: one with a count, one built
\* with count 0; and the values assigned to their attributes
EditedItemArgs ==
  { <<IntVal(3), IntVal(5), IntVal(21)>>,
    <<IntVal(0), IntVal(5), IntVal(21)>> }
CountArgs == {IntVal(0), Text(""), NoneVal, IntVal(2)}
PriceArgs == {IntVal(0), Text(""), NoneVal, StrVal(25, -1)}
UnitArgs == {IntVal(0), Text(""), NoneVal, Text("kg")}

AddEditedItems == \E a \in EditedItemArgs : add_item(Item(a[1], a[2], a[3]))
SetItemCount ==
  \E i \in 1..MaxItems, value \in CountArgs : setattr_item_count(i, value)
SetItemPrice ==
  \E i \in 1..MaxItems, value \in PriceArgs : setattr_item_price(i, value)
SetItemUnit ==
  \E i \in 1..MaxItems, value \in UnitArgs : setattr_item_unit(i, value)

\* items of an invoice and assignments to their attributes
NextItemEdits == AddEditedItems \/ SetItemCount \/ SetItemPrice \/ SetItemUnit
SpecItemEdits == Init /\ [][NextItemEdits]_vars

\* items, rounding attributes and mode of one invoice
NextItemsAndMode ==
  \/ AddFewItems
  \/ AddNonItem
  \/ SetRoundingResult
  \/ SetFewStrategies
  \/ SetFewModes
  \/ AssignFewModes
SpecItemsAndMode == Init /\ [][NextItemsAndMode]_vars

\* invoice.date = value
setattr_date(value) ==
  /\ date' = value
  /\ raised' = NoException
  /\ UNCHANGED <<items, rounding_result, rounding_strategy, kind, mode, stdout>>
  /\ UNCHANGED <<number, parties, cls, other>>

\* f"{invoice.kind[0].upper()}"
FirstLetter(value) ==
  CASE value = "facture" -> "F"
    [] value = "devis" -> "D"
    [] value = "bogus" -> "B"

\* as gen, but the invoice is only read: the number and the date of the file
\* name are kept in locals
genReadOnly(pdfs, today) ==
  /\ Len(stdout) < MaxOut
  /\ stdout' = Append(stdout,
                 <<"filename",
                   <<FirstLetter(kind), pdfs + 1,
                     IF date = "None" THEN today ELSE date>>>>)
  /\ raised' = "AttributeError"
  /\ UNCHANGED <<items, rounding_result, rounding_strategy, kind, mode>>
  /\ UNCHANGED <<number, date, parties, cls, other>>

\* SimpleInvoice(invoice).gen() in a directory that holds `pdfs` PDF files on
\* the day `today`: generate_filename gives the invoice today's date when it
\* has none, numbers it after the files present and prints the file name;
\* then _addMetaInformation reads invoice.title, which no Invoice has
\* (the output kept is at most MaxOut lines long)
gen(pdfs, today) ==
  /\ Len(stdout) < MaxOut
  /\ date' = IF date = "None" THEN today ELSE date
  /\ number' = IntVal(pdfs + 1)
  /\ stdout' = Append(stdout, <<"filename", <<FirstLetter(kind), pdfs + 1, date'>>>>)
  /\ raised' = "AttributeError"
  /\ UNCHANGED <<items, rounding_result, rounding_strategy, kind, mode>>
  /\ UNCHANGED <<parties, cls, other>>

Today == "2026-11-05"
DateArgs == {"2025-06-30"}

SetDate == \E d \in DateArgs : setattr_date(d)
Gen == \E pdfs \in 0..MaxPdfs : gen(pdfs, Today)

\* an invoice that is filled and rendered
NextRender == AddFewItems \/ AssignFewKinds \/ SetDate \/ Gen
SpecRender == Init /\ [][NextRender]_vars

(***************************************************************************)
(* Reference arithmetic of the properties: plain integers counting units   *)
(* of 10^-5, computed without the Decimal operators above                  *)
(***************************************************************************)
RefDigits == 5
RefUnit == Pow10(RefDigits)

\* a Decimal in reference units; exact when d.e >= -RefDigits
Ref(d) == d.c * Pow10(RefDigits + d.e)

\* every item of the list has a stored count and a stored price
Priced(its) == \A i \in 1..Len(its) : its[i].has_count /\ its[i].has_price

\* price * count
RefTotal(item) ==
  item._price.c * item._count.c
    * Pow10(RefDigits + item._price.e + item._count.e)

\* price * count * tax / 100
RefTax(item) ==
  item._price.c * item._count.c * item._tax.c
    * Pow10(RefDigits + item._price.e + item._count.e + item._tax.e - 2)

RECURSIVE RefSum(_, _)
RefSum(f, n) == IF n = 0 THEN 0 ELSE f[n] + RefSum(f, n - 1)

RefPrice(its) == RefSum([i \in 1..Len(its) |-> RefTotal(its[i])], Len(its))
RefPriceTax(its) ==
  RefSum([i \in 1..Len(its) |-> RefTotal(its[i]) + RefTax(its[i])], Len(its))

\* the whole number n is the rounding of x reference units under a strategy
RefRounds(strategy, x, n) ==
  LET d == x - n * RefUnit
      tie == 2 * Abs(d) = RefUnit
      nearest == 2 * Abs(d) <= RefUnit
  IN CASE strategy = ROUND_FLOOR -> 0 <= d /\ d < RefUnit
       [] strategy = ROUND_CEILING -> -RefUnit < d /\ d <= 0
       [] strategy = ROUND_DOWN ->
            /\ Abs(d) < RefUnit /\ Abs(n * RefUnit) <= Abs(x)
            /\ (n >= 0 /\ x >= 0) \/ (n <= 0 /\ x <= 0)
       [] strategy = ROUND_HALF_UP ->
            nearest /\ (tie => Abs(n * RefUnit) > Abs(x))
       [] strategy = ROUND_HALF_DOWN ->
            nearest /\ (tie => Abs(n * RefUnit) < Abs(x))
       [] strategy = ROUND_HALF_EVEN -> nearest /\ (tie => n % 2 = 0)

\* the items in the order given by a permutation of their positions
Reordered(its, perm) == [i \in 1..Len(its) |-> its[perm[i]]]

Price == price(items, rounding_result, rounding_strategy)
PriceTax == price_tax(items, rounding_result, rounding_strategy)
Difference == difference_in_rounding(items, rounding_strategy)

(***************************************************************************)
(* Properties                                                              *)
(***************************************************************************)

\* C1: price() is the exact sum of price * count over the items when the
\* rounding toggle is off, and the rounding of that exact sum when it is on
\* (for items that carry a count and a price).
C1_PriceIsSumOfTotals ==
  Priced(items) =>
    /\ Price.ok
    /\ ~rounding_result => Ref(Price.v) = RefPrice(items)
    /\ rounding_result =>
         /\ Price.v.e = 0
         /\ Price.v =
              quantize(Dec(RefPrice(items), -RefDigits), rounding_strategy)

\* C1 witness: two or more priced items, toggle on, the exact sum not whole
C1_Witness ==
  /\ Len(items) >= 2 /\ Priced(items) /\ rounding_result
  /\ RefPrice(items) % RefUnit # 0
  /\ Ref(Price.v) # RefPrice(items)

\* C2: price_tax is the exact sum of price * count * (1 + tax/100) over the
\* items when the rounding toggle is off, and the rounding of that exact sum
\* when it is on (for items that carry a count and a price).
C2_PriceTaxIsSumOfTotalTax ==
  Priced(items) =>
    /\ PriceTax.ok
    /\ ~rounding_result => Ref(PriceTax.v) = RefPriceTax(items)
    /\ rounding_result =>
         /\ PriceTax.v.e = 0
         /\ PriceTax.v =
              quantize(Dec(RefPriceTax(items), -RefDigits), rounding_strategy)

\* C2 witness: two or more priced items, one taxed, sum not whole, toggle off
C2_Witness ==
  /\ Len(items) >= 2 /\ Priced(items) /\ ~rounding_result
  /\ \E i \in 1..Len(items) : items[i]._tax.c > 0
  /\ RefPriceTax(items) % RefUnit # 0
  /\ RefPriceTax(items) # RefPrice(items)

\* C3: price() and price_tax return exactly the same value (coefficient and
\* exponent, or the same error) for every order of the same items, under any
\* rounding toggle and strategy.
C3_TotalsIndependentOfOrder ==
  LET p == Price
      pt == PriceTax
  IN \A perm \in Permutations(1..Len(items)) :
       /\ price(Reordered(items, perm), rounding_result, rounding_strategy) = p
       /\ price_tax(Reordered(items, perm), rounding_result, rounding_strategy)
            = pt

\* C3 witness: three priced items whose totals have different exponents
C3_Witness ==
  /\ Len(items) = 3 /\ Priced(items)
  /\ \E i, j \in 1..3 : total(items[i]).v.e # total(items[j]).v.e
  /\ \E i, j \in 1..3 : total_tax(items[i]).v.e # total_tax(items[j]).v.e

\* C4: for every item with a count, a price and a tax rate >= 0,
\* total_tax - total equals count_tax() exactly, with total = price * count
\* and total_tax = total * (1 + tax/100), so that count_tax() is
\* total * tax/100.
C4_TaxAmountIsDifference ==
  \A i \in 1..Len(items) :
    (items[i].has_count /\ items[i].has_price /\ items[i]._tax.c >= 0) =>
      /\ count_tax(items[i]).ok
      /\ DecEq(DecSub(total_tax(items[i]).v, total(items[i]).v),
               count_tax(items[i]).v)
      /\ Ref(total(items[i]).v) = RefTotal(items[i])
      /\ Ref(total_tax(items[i]).v) = RefTotal(items[i]) + RefTax(items[i])
      /\ Ref(count_tax(items[i]).v) = RefTax(items[i])

\* C4 witness: an item with a fractional price and a rate given as "21.0"
C4_Witness ==
  \E i \in 1..Len(items) :
    /\ items[i].has_count /\ items[i].has_price
    /\ items[i]._price.e < 0 /\ items[i]._tax.e < 0
    /\ RefTax(items[i]) > 0

\* the strategies the invoice documents
SixStrategies ==
  {ROUND_HALF_UP, ROUND_HALF_DOWN, ROUND_HALF_EVEN, ROUND_CEILING,
   ROUND_FLOOR, ROUND_DOWN}

SumOfTotals == sum([i \in 1..Len(items) |-> total(items[i])])
Unrounded == _price_tax_unrounded(items)
Table == generate_breakdown_vat_table(items)

\* C5: under each of the six strategies the rounding of a sum is a whole
\* number, the reference rounding of that sum to 0 fractional digits; under
\* ROUND_HALF_EVEN the exact half 100.50 goes to the even neighbour 100.
C5_RoundingIsReferenceRounding ==
  (Priced(items) /\ rounding_strategy \in SixStrategies) =>
    /\ \A p \in {SumOfTotals, Unrounded} :
         LET r == _round_price(rounding_strategy, p)
         IN /\ r.ok /\ r.v.e = 0
            /\ RefRounds(rounding_strategy, Ref(p.v), r.v.c)
    /\ (/\ rounding_strategy = ROUND_HALF_EVEN
        /\ Ref(Unrounded.v) = 10050 * Pow10(RefDigits - 2))
         => _round_price(rounding_strategy, Unrounded) = Ok(Dec(100, 0))

\* C5 witness: toggle on, ROUND_HALF_EVEN, sum with tax 100.50, rounded 100
C5_Witness ==
  /\ Priced(items) /\ rounding_result /\ rounding_strategy = ROUND_HALF_EVEN
  /\ Unrounded = Ok(Dec(10050, -2))
  /\ PriceTax = Ok(Dec(100, 0))

\* C6: under every rounding strategy the absolute value of
\* difference_in_rounding is strictly less than 1.
C6_DifferenceBelowOne ==
  Priced(items) => Difference.ok /\ Abs(Ref(Difference.v)) < RefUnit

\* C6 witness: a difference of at least 0.9
C6_Witness ==
  /\ Priced(items) /\ Len(items) >= 1
  /\ 10 * Abs(Ref(Difference.v)) >= 9 * RefUnit

\* C7 as stated: toggle on or off, price_tax - difference_in_rounding is the
\* exact unrounded sum of the items' totals with tax.
C7_AsStated ==
  Priced(items) => Ref(ResSub(PriceTax, Difference).v) = RefPriceTax(items)

\* C7 amended: with the rounding toggle on, price_tax - difference_in_rounding
\* is the exact unrounded sum of the items' totals with tax; with the toggle
\* off price_tax is that exact sum itself and the equation holds only when
\* the sum is a whole number (the difference is computed all the same).
C7_DifferenceWhenRounding ==
  Priced(items) =>
    /\ ResSub(PriceTax, Difference).ok
    /\ rounding_result =>
         Ref(ResSub(PriceTax, Difference).v) = RefPriceTax(items)
    /\ ~rounding_result =>
         /\ Ref(PriceTax.v) = RefPriceTax(items)
         /\ (Ref(ResSub(PriceTax, Difference).v) = RefPriceTax(items))
              <=> (RefPriceTax(items) % RefUnit = 0)

\* C7 witness: toggle on and a difference that is not zero
C7_Witness ==
  /\ Priced(items) /\ rounding_result
  /\ Ref(Difference.v) # 0
  /\ Ref(PriceTax.v) # RefPriceTax(items)

RowsTotal ==
  LET rows == Table.rows
  IN RefSum([j \in 1..Len(rows) |-> Ref(rows[j][2])], Len(rows))

\* C8 as stated: the sum of the rows' total values equals price().
C8_AsStated ==
  Priced(items) => Table.ok /\ RowsTotal = Ref(Price.v)

\* C8 amended: the sum of the rows' total values equals the unrounded sum of
\* the items' totals: it equals price() when the rounding toggle is off, and
\* price() is its rounding when the toggle is on.
C8_RowsSumToUnroundedPrice ==
  Priced(items) =>
    LET rt == RowsTotal
    IN /\ Table.ok
       /\ rt = RefPrice(items)
       /\ ~rounding_result => rt = Ref(Price.v)
       /\ rounding_result =>
            Price.v = quantize(Dec(rt, -RefDigits), rounding_strategy)

\* C8 witness: fewer rows than items, toggle on, price() not the rows' sum
C8_Witness ==
  /\ Priced(items) /\ rounding_result
  /\ Len(Table.rows) >= 2 /\ Len(Table.rows) < Len(items)
  /\ RowsTotal # Ref(Price.v)

\* position of the first item whose rate equals the rate r
FirstSeen(r) ==
  CHOOSE i \in 1..Len(items) :
    /\ DecEq(items[i]._tax, r)
    /\ \A k \in 1..(i - 1) : ~DecEq(items[k]._tax, r)

\* C9: the breakdown has exactly one row per distinct tax rate among the
\* items, in the order in which each rate is first met in the item sequence.
C9_OneRowPerRateInFirstSeenOrder ==
  Priced(items) =>
    LET t == Table
        rows == t.rows
    IN /\ t.ok
       /\ \A j, k \in 1..Len(rows) : j # k => ~DecEq(rows[j][1], rows[k][1])
       /\ \A i \in 1..Len(items) :
            \E j \in 1..Len(rows) : DecEq(rows[j][1], items[i]._tax)
       /\ \A j \in 1..Len(rows) :
            \E i \in 1..Len(items) : DecEq(rows[j][1], items[i]._tax)
       /\ \A j, k \in 1..Len(rows) :
            j < k => FirstSeen(rows[j][1]) < FirstSeen(rows[k][1])

\* C9 witness: rates 21, 0 and "21.0" give the two rows 21, 0 in that order
C9_Witness ==
  /\ Priced(items) /\ Len(items) = 3 /\ Len(Table.rows) = 2
  /\ Ref(Table.rows[1][1]) > Ref(Table.rows[2][1])
  /\ \E i \in 1..3 : items[i]._tax # Table.rows[1][1]
                      /\ DecEq(items[i]._tax, Table.rows[1][1])

\* C10 as stated: kind is one of the two kinds and mode is 1 or 2 in every
\* state reached by set_kind, set_mode and assignments to kind and mode.
C10_KindAndModeEnumerated ==
  kind \in {"facture", "devis"} /\ mode \in {IntVal(1), IntVal(2)}

(***************************************************************************)
(* Setters of kind and mode                                                *)
(***************************************************************************)
\* the kinds and the modes the specification enumerates, the default first
Kinds == <<"facture", "devis">>
Modes == <<1, 2>>

\* the lines printed by this step
Printed == SubSeq(stdout', Len(stdout) + 1, Len(stdout'))

\* C11: set_kind(value) returns without an exception; a value among the two
\* kinds becomes the kind and nothing is printed, any other value makes the
\* kind the first of the two and prints one line naming the value, whatever
\* the kind was before
C11_SetKindFallsBack ==
  [][\A value \in KindArgs :
       set_kind(value) =>
         /\ raised' = NoException
         /\ IF \E i \in 1..Len(Kinds) : value = Kinds[i]
            THEN kind' = value /\ Printed = <<>>
            ELSE kind' = Kinds[1] /\ Printed = <<<<"wrong kind", value>>>>]_vars

\* set_kind("bogus") has printed its line and the kind is the default
C11_Witness ==
  /\ kind = Kinds[1]
  /\ \E i \in 1..Len(stdout) : stdout[i] = <<"wrong kind", "bogus">>

\* C12: set_mode(value) returns without an exception; the integers 1 and 2
\* become the mode and nothing is printed, every other value (the strings
\* "1" and "2" included) makes the mode 1 and prints one line
C12_SetModeAcceptsOneAndTwo ==
  [][\A value \in ModeArgs :
       set_mode(value) =>
         /\ raised' = NoException
         /\ IF value.type = "int" /\ \E i \in 1..Len(Modes) : value.c = Modes[i]
            THEN mode' = value /\ Printed = <<>>
            ELSE /\ mode' = IntVal(Modes[1])
                 /\ Len(Printed) = 1
                 /\ Printed[1][1] = "wrong mode"]_vars

\* set_mode("2") has printed its line and the mode is 1
C12_Witness ==
  /\ mode = IntVal(1)
  /\ \E i \in 1..Len(stdout) : stdout[i] = <<"wrong mode", Format(StrVal(2, 0))>>

(***************************************************************************)
(* The item list                                                           *)
(***************************************************************************)
\* p is an initial segment of q
IsPrefix(p, q) == Len(p) <= Len(q) /\ SubSeq(q, 1, Len(p)) = p

\* what an invoice with these items and rounding attributes reports: price,
\* price_tax, difference_in_rounding and the breakdown table
Totals(its, rounding, strategy) ==
  <<price(its, rounding, strategy), price_tax(its, rounding, strategy),
    difference_in_rounding(its, strategy), generate_breakdown_vat_table(its)>>

\* C13: add_item(x) with x not an Item ends with an exception and leaves the
\* item list, the two prices, the rounding difference and the breakdown as
\* they were
C13_AddNonItemFails ==
  [][\A x \in NonItemArgs :
       add_item(x) =>
         /\ raised' # NoException
         /\ items' = items
         /\ Totals(items', rounding_result', rounding_strategy')
              = Totals(items, rounding_result, rounding_strategy)]_vars

\* add_item of a non-Item has failed on an invoice that has items
C13_Witness == raised = "AssertionError" /\ Len(items) >= 1

\* C14: add_item(item) makes the list the previous list with item last, and
\* every step of an invoice keeps the previous list as a prefix of the list
C14_ItemsAppendOnly ==
  [][/\ IsPrefix(items, items')
     /\ \A a \in FewItemArgs :
          add_item(Item(a[1], a[2], a[3])) =>
            /\ Len(items') = Len(items) + 1
            /\ items'[Len(items')] = Item(a[1], a[2], a[3])
            /\ SubSeq(items', 1, Len(items)) = items]_vars

\* two different items, in the order they were added
C14_Witness ==
  /\ Len(items) >= 2
  /\ items[1] = Item(IntVal(3), IntVal(5), IntVal(21))
  /\ items[2] = Item(IntVal(1), StrVal(10050, -2), NoneVal)

(***************************************************************************)
(* Construction of items and parties                                       *)
(***************************************************************************)
\* the call returned the number zero
IsZero(result) == result.ok /\ result.v.c = 0

\* C15: an item constructed with count 0 exists, and its total, its total
\* with tax and its tax amount are all 0
C15_ZeroCountZeroTotals ==
  \A i \in 1..Len(items) :
    \A a \in ItemArgs :
      (a[1] = IntVal(0) /\ items[i] = Item(a[1], a[2], a[3])) =>
        /\ IsZero(total(items[i]))
        /\ IsZero(total_tax(items[i]))
        /\ IsZero(count_tax(items[i]))

\* C16: no item of an invoice has a negative count or a negative price
C16_NoNegativeCountOrPrice ==
  \A i \in 1..Len(items) :
    /\ items[i].has_count => items[i]._count.c >= 0
    /\ items[i].has_price => items[i]._price.c >= 0

\* C17: every Client and Provider that exists has a summary that is a
\* non-empty string
C17_SummaryNeverEmpty ==
  \A p \in parties : p.summary.type = "str" /\ p.summary.text # ""

(***************************************************************************)
(* Mode, rendering and a second invoice                                    *)
(***************************************************************************)
\* C18: a step that changes the mode, by set_mode or by assignment, leaves
\* price, price_tax, difference_in_rounding and the breakdown as they were
C18_ModeLeavesTotals ==
  [][mode' # mode =>
       Totals(items', rounding_result', rounding_strategy')
         = Totals(items, rounding_result, rounding_strategy)]_vars

\* an invoice in mode 2 whose price is rounded: 100.50 + 15 reported as 116
C18_Witness ==
  /\ mode = IntVal(2)
  /\ rounding_result
  /\ Len(items) = 2
  /\ Price = Ok(Dec(116, 0))
  /\ Difference # Ok(Dec0)

View(instance, class) ==
  [kind |-> Getattr(instance, class, "kind"),
   mode |-> Getattr(instance, class, "mode"),
   rounding_result |-> Getattr(instance, class, "rounding_result"),
   rounding_strategy |-> Getattr(instance, class, "rounding_strategy"),
   items |-> instance._items,
   totals |-> Totals(instance._items,
                     Getattr(instance, class, "rounding_result"),
                     Getattr(instance, class, "rounding_strategy"))]

\* C20: no operation on one invoice (set_kind, set_mode, add_item, an
\* assignment to kind, mode, rounding_result or rounding_strategy) changes
\* the kind, mode, rounding attributes, items or totals of another invoice
C20_OtherInvoiceUntouched ==
  [][View(other', cls') = View(other, cls)]_vars

\* the first invoice has an item, rounds and is a "devis" in mode 2, next to
\* an invoice that is still as constructed
C20_Witness ==
  /\ Len(items) >= 1
  /\ rounding_result
  /\ kind = "devis"
  /\ mode = IntVal(2)
  /\ View(other, cls)
       = [kind |-> "facture", mode |-> IntVal(1), rounding_result |-> FALSE,
          rounding_strategy |-> ROUND_HALF_EVEN, items |-> <<>>,
          totals |-> Totals(<<>>, FALSE, ROUND_HALF_EVEN)]

(***************************************************************************)
(* Assignments to the attributes of an item                                *)
(***************************************************************************)
\* the values the setters take as "no value"
ZeroLike == {IntVal(0), Text(""), NoneVal}

\* total, total with tax and tax amount of an item
ItemTotals(item) == <<total(item), total_tax(item), count_tax(item)>>

\* C21: assigning 0, "" or None to the count, the price or the unit of an
\* existing item leaves the item as it was, its total, total with tax and
\* tax amount with it; assigning any other value stores that value (as a
\* Decimal for count and price) and leaves the other attributes alone
C21_ZeroLikeAssignmentsIgnored ==
  [][\A i \in 1..Len(items) :
       /\ (\E value \in ZeroLike :
             \/ setattr_item_count(i, value)
             \/ setattr_item_price(i, value)
             \/ setattr_item_unit(i, value))
            => /\ items'[i] = items[i]
               /\ ItemTotals(items'[i]) = ItemTotals(items[i])
       /\ \A value \in CountArgs \ ZeroLike :
            setattr_item_count(i, value) =>
              items'[i] = [items[i] EXCEPT !.has_count = TRUE,
                                           !._count = Dec(value.c, value.e)]
       /\ \A value \in PriceArgs \ ZeroLike :
            setattr_item_price(i, value) =>
              items'[i] = [items[i] EXCEPT !.has_price = TRUE,
                                           !._price = Dec(value.c, value.e)]
       /\ \A value \in UnitArgs \ ZeroLike :
            setattr_item_unit(i, value) =>
              items'[i] = [items[i] EXCEPT !.has_unit = TRUE,
                                           !._unit = value]]_vars

\* an item whose count, price and unit were all replaced after construction:
\* 2 * 2.5 = 5
C21_Witness ==
  \E i \in 1..Len(items) :
    /\ items[i].has_count /\ items[i]._count = Dec(2, 0)
    /\ items[i].has_price /\ items[i]._price = Dec(25, -1)
    /\ items[i].has_unit /\ items[i]._unit = Text("kg")
    /\ total(items[i]) = Ok(Dec(50, -1))

(***************************************************************************)
(* Consistency of the breakdown                                            *)
(***************************************************************************)
\* the pre-tax total of a row in hundredths
Hundredths(row) == Ref(row[2]) \div Pow10(RefDigits - 2)

\* C22: in every row of the breakdown the tax amount is the total with tax
\* minus the total, and the total with tax is the total times
\* (1 + rate / 100); the rows' totals with tax add up to the unrounded sum of
\* the items' totals with tax
C22_RowsConsistent ==
  Priced(items) =>
    LET t == Table
        rows == t.rows
    IN /\ t.ok
       /\ \A j \in 1..Len(rows) :
            LET rate == rows[j][1]
                h == Hundredths(rows[j])
            IN /\ Ref(rows[j][4]) = Ref(rows[j][3]) - Ref(rows[j][2])
               /\ h * Pow10(RefDigits - 2) = Ref(rows[j][2])
               /\ Ref(rows[j][3]) - Ref(rows[j][2])
                    = h * rate.c * Pow10(RefDigits - 4 + rate.e)
       /\ RefSum([j \in 1..Len(rows) |-> Ref(rows[j][3])], Len(rows))
            = RefPriceTax(items)
       /\ Unrounded.ok
       /\ RefSum([j \in 1..Len(rows) |-> Ref(rows[j][3])], Len(rows))
            = Ref(Unrounded.v)

\* two items at the rate 21 and "21.0" share a row with a tax amount, next
\* to a row of another rate
C22_Witness ==
  /\ Priced(items)
  /\ Len(items) = 3
  /\ Len(Table.rows) = 2
  /\ \E j \in 1..2 :
       /\ DecEq(Table.rows[j][1], Dec(21, 0))
       /\ Ref(Table.rows[j][2]) = Ref(Dec(175, -1))
       /\ Ref(Table.rows[j][4]) = Ref(Dec(3675, -3))

====
